---- MODULE Spec2Model ----
(***************************************************************************)
(* Model of the DocuSight-AI review session: the field list owned by the   *)
(* AnalysisView component (components/AnalysisView.tsx, kept here as       *)
(* src/unnamed/part_000), the handlers that edit it, and the values the    *)
(* component derives from it.                                              *)
(***************************************************************************)
EXTENDS Integers, Sequences, FiniteSets, TLC

VARIABLES
    fields,        \* useState<FieldData[]>(data.fields)
    saveMessage,   \* useState<{type, text} | null>(null)
    uploads,       \* FileReaders started by handleImageUpload, not yet ended
    isSaving,      \* useState(false)
    saveFields,    \* the `fields` a pending handleSave closed over
    imageUrl,      \* the imageUrl prop: TRUE when the base image is present
    isGeneratingDownload,  \* useState(false)
    dlPc,          \* where handleDownloadFilledDoc is suspended
    dlFields,      \* the `fields` the running handleDownloadFilledDoc closed over
    dlIdx,         \* the field whose image that run is waiting for
    canvas,        \* canvasRef.current: its size and what has been drawn on it
    pdf,           \* the document pdf.save() wrote last
    jsonExport,    \* the payload exportJSON offered last
    shown,         \* the completion percentage rendered last
    edits,         \* edits left to the run, where the run bounds them
    app,           \* App: appState, currentFile, analysisData, errorMsg, and
                   \* the analyses and the file dialog it has open
    lastOp         \* history: the handler that ran last, with its arguments

storeVars == <<fields, saveMessage, uploads>>
saveVars == <<isSaving, saveFields>>
dlVars == <<isGeneratingDownload, dlPc, dlFields, dlIdx, canvas, pdf>>
viewVars == <<imageUrl, shown>>
vars == <<fields, saveMessage, uploads, isSaving, saveFields, imageUrl,
          isGeneratingDownload, dlPc, dlFields, dlIdx, canvas, pdf, jsonExport,
          shown, edits, app, lastOp>>

----------------------------------------------------------------------------
(* Bounds of the model *)

NumFields == 2

\* edits (handleFieldChange, handleSkipField) in one run of SpecSave
MaxEdits == 2

\* edits in one run of SpecExport and of SpecSession
MaxExportEdits == 1

----------------------------------------------------------------------------
(* The field model, types.ts *)

FieldTypes == {"text", "checkbox", "image"}

FieldStatus == {"filled", "empty", "uncertain", "skipped"}

\* reader.result of a FileReader whose read failed: null, cast to string
NullValue == "<<null>>"

ImageData == "data:image/png;base64,AA"

\* JavaScript truthiness of a field value: "" and null are falsy
Truthy(v) == v \notin {"", NullValue}

\* String.prototype.toLowerCase over the values the model uses
ToLowerCase(s) ==
    CASE s = "Yes" -> "yes"
      [] s = "TRUE" -> "true"
      [] s = "Checked" -> "checked"
      [] s = "N/A" -> "n/a"
      [] OTHER -> s

\* saveMessage: null, or {type, text} with the number the text carries
NoMessage == [type |-> "none", text |-> "", count |-> 0]

SavedMessage == [type |-> "success", text |-> "Form validated and saved", count |-> 0]

ValidationFailed(n) == [type |-> "error", text |-> "Validation Failed", count |-> n]

PdfFailed == [type |-> "error", text |-> "Failed to generate PDF", count |-> 0]

----------------------------------------------------------------------------
(* The documents a session starts from: the field list JSON.parse hands    *)
(* over unvalidated (geminiService.ts), so any value may come with any     *)
(* status, keys may repeat, and every optional attribute may be absent.    *)

KeyName(i) == "k" \o ToString(i)

UnknownKey == "nokey"

LabelName(i) == "Label " \o ToString(i)

TypeOrder == <<"text", "checkbox", "image">>

TypeAt(i, rot) == TypeOrder[((i - 1 + rot) % 3) + 1]

\* the rotations of TypeOrder a document needs for every type to occur in it
TypeShifts == IF NumFields >= 3 THEN {0} ELSE 0..(3 - NumFields)

\* [ymin, xmin, ymax, xmax] in tenths of the page; NoBox when absent
NoBox == <<>>

BoxAt(i) == <<(2 * i) % 10, 1, ((2 * i) % 10) + 1, 9>>

\* values the extraction service returns for a field of the given type
InitValues(type) ==
    CASE type = "checkbox" -> {"", "Yes"}
      [] type = "image" -> {"", ImageData}
      [] OTHER -> {"", "N/A"}

AllInitValues == {"", "Yes", "N/A", ImageData}

\* values a caller passes to handleFieldChange
EditValues == {"", "Ann"}

Field(i, key, type, required, box, value, status) ==
    [key |-> key, label |-> LabelName(i), value |-> value, type |-> type,
     status |-> status, required |-> required,
     example |-> "e.g.", explanation |-> "seen", boundingBox |-> box]

Indices == 1..NumFields

\* the key of field i; dup makes the last field repeat the first one's key
KeyAt(i, dup) == IF dup /\ i = NumFields /\ i > 1 THEN KeyName(1) ELSE KeyName(i)

\* fields = data.fields for some document of the given shapes
InitFields(rots, dups, reqs, boxes, vals, stats) ==
    \E rot \in rots, dup \in dups :
      \E req \in [Indices -> reqs], box \in [Indices -> boxes],
         st \in [Indices -> stats] :
        \E val \in [Indices -> vals] :
          /\ \A i \in Indices : val[i] \in InitValues(TypeAt(i, rot))
          /\ fields = [i \in Indices |->
                         Field(i, KeyAt(i, dup), TypeAt(i, rot), req[i],
                               IF box[i] THEN BoxAt(i) ELSE NoBox, val[i], st[i])]

Keys(fs) == {fs[i].key : i \in DOMAIN fs}

StatusOf(fs) == [i \in DOMAIN fs |-> fs[i].status]

----------------------------------------------------------------------------
(* The handlers of AnalysisView that edit the field list *)

\* FieldChange with the status left as it was
FieldChangeKeepsStatus(fs, key, newValue) ==
    [i \in DOMAIN fs |->
        IF fs[i].key = key THEN [fs[i] EXCEPT !.value = newValue] ELSE fs[i]]

\* FieldChange that adds a field when no field carries the key
FieldChangeUpsert(fs, key, newValue) ==
    IF \E i \in DOMAIN fs : fs[i].key = key
    THEN [i \in DOMAIN fs |->
             IF fs[i].key = key
             THEN [fs[i] EXCEPT !.value = newValue,
                                !.status = IF Truthy(newValue) THEN "filled" ELSE "empty"]
             ELSE fs[i]]
    ELSE Append(fs, Field(Len(fs) + 1, key, "text", FALSE, NoBox, newValue,
                          IF Truthy(newValue) THEN "filled" ELSE "empty"))

\* setFields(prev => prev.map(f => f.key === key ? {...f, value, status} : f))
FieldChange(fs, key, newValue) ==
    [i \in DOMAIN fs |->
        IF fs[i].key = key
        THEN [fs[i] EXCEPT !.value = newValue,
                           !.status = IF Truthy(newValue) THEN "filled" ELSE "empty"]
        ELSE fs[i]]

\* SkipToggle that un-skips to empty without looking at the value
SkipToggleToEmpty(fs, key) ==
    [i \in DOMAIN fs |->
        IF fs[i].key = key
        THEN [fs[i] EXCEPT !.status =
                 IF fs[i].status = "skipped" THEN "empty" ELSE "skipped"]
        ELSE fs[i]]

\* SkipToggle that also stops requiring the field it skips
SkipToggleUnrequires(fs, key) ==
    [i \in DOMAIN fs |->
        IF fs[i].key = key
        THEN [fs[i] EXCEPT !.status =
                               IF fs[i].status = "skipped"
                               THEN (IF Truthy(fs[i].value) THEN "filled" ELSE "empty")
                               ELSE "skipped",
                           !.required = fs[i].status = "skipped"]
        ELSE fs[i]]

\* setFields(prev => prev.map(f => f.key === key ? {...f, status: ...} : f))
SkipToggle(fs, key) ==
    [i \in DOMAIN fs |->
        IF fs[i].key = key
        THEN [fs[i] EXCEPT !.status =
                 IF fs[i].status = "skipped"
                 THEN (IF Truthy(fs[i].value) THEN "filled" ELSE "empty")
                 ELSE "skipped"]
        ELSE fs[i]]

\* IsChecked that compares the value as it is written
IsCheckedCaseSensitive(value) == value \in {"true", "yes", "checked"}

\* field.value.toLowerCase() === 'true' || ... 'yes' || ... 'checked'
IsChecked(value) == ToLowerCase(value) \in {"true", "yes", "checked"}

Op(op, key, value, via) ==
    [op |-> op, key |-> key, value |-> value, via |-> via,
     pre |-> StatusOf(fields),
     twice |-> op = "handleSkipField" /\ lastOp.op = op /\ lastOp.key = key,
     start |-> IF op = "handleSkipField" /\ lastOp.op = op /\ lastOp.key = key
               THEN lastOp.pre ELSE StatusOf(fields)]

\* a run that starts with edits = Unbounded may edit without end
Unbounded == 0 - 1

CountEdit ==
    /\ edits # 0
    /\ edits' = IF edits = Unbounded THEN Unbounded ELSE edits - 1

\* handleFieldChange as the closure of one render sees it: sawMessage is that
\* render's saveMessage being non-null
FieldChangeCall(key, newValue, via, sawMessage) ==
    /\ CountEdit
    /\ UNCHANGED <<saveVars, viewVars, app, dlVars, jsonExport>>
    /\ fields' = FieldChange(fields, key, newValue)
    /\ saveMessage' = IF sawMessage THEN NoMessage ELSE saveMessage
    /\ lastOp' = Op("handleFieldChange", key, newValue, via)

\* handleFieldChange(key, newValue), called with any key and value
HandleFieldChange(key, newValue) ==
    /\ FieldChangeCall(key, newValue, "call", saveMessage # NoMessage)
    /\ UNCHANGED uploads

\* handleSkipField(key), called with any key
HandleSkipField(key) ==
    /\ CountEdit
    /\ UNCHANGED <<saveVars, viewVars, app, dlVars, jsonExport>>
    /\ fields' = SkipToggle(fields, key)
    /\ lastOp' = Op("handleSkipField", key, "", "call")
    /\ UNCHANGED <<saveMessage, uploads>>

\* <input>/<textarea> onChange: rendered for the text-like types, disabled
\* while the field is skipped
TextEdit(i, v) ==
    /\ fields[i].type \notin {"image", "signature", "checkbox"}
    /\ fields[i].status # "skipped"
    /\ FieldChangeCall(fields[i].key, v, "text", saveMessage # NoMessage)
    /\ UNCHANGED uploads

\* the checkbox row's onClick
CheckboxClick(i) ==
    /\ fields[i].type = "checkbox"
    /\ FieldChangeCall(fields[i].key,
                       IF IsChecked(fields[i].value) THEN "false" ELSE "true",
                       "checkbox", saveMessage # NoMessage)
    /\ UNCHANGED uploads

\* handleImageUpload(key, file): the file input is rendered while the value
\* is falsy; the reader keeps the handleFieldChange of this render
HandleImageUpload(i) ==
    /\ fields[i].type \in {"image", "signature"}
    /\ ~Truthy(fields[i].value)
    /\ uploads' = uploads \cup {[key |-> fields[i].key,
                                 sawMessage |-> saveMessage # NoMessage]}
    /\ lastOp' = Op("handleImageUpload", fields[i].key, "", "upload")
    /\ UNCHANGED <<fields, saveMessage, saveVars, viewVars, app, dlVars, jsonExport, edits>>

\* reader.onloadend: result is the data URL, or null when the read failed
ReaderLoadEnd(u, result) ==
    /\ u \in uploads
    /\ uploads' = uploads \ {u}
    /\ FieldChangeCall(u.key, result, "upload", u.sawMessage)

\* clearImageField(key): the remove button is rendered while the value is truthy
ClearImageField(i) ==
    /\ fields[i].type \in {"image", "signature"}
    /\ Truthy(fields[i].value)
    /\ FieldChangeCall(fields[i].key, "", "clear", saveMessage # NoMessage)
    /\ UNCHANGED uploads

----------------------------------------------------------------------------
(* JavaScript numbers: IEEE 754 binary64, as far as completionRate uses them. *)
(* A positive number is [mant, exp]: mant its 53 significant bits, most       *)
(* significant first, the first of them worth 2^exp; zero has no bits.        *)

Precision == 53

Zero == [mant |-> <<>>, exp |-> 0]

Reverse(s) == [i \in 1..Len(s) |-> s[Len(s) + 1 - i]]

Zeros(n) == [i \in 1..n |-> 0]

RECURSIVE Pow2(_)
Pow2(k) == IF k = 0 THEN 1 ELSE 2 * Pow2(k - 1)

\* 2^k modulo den, by squaring
RECURSIVE Pow2Mod(_, _)
Pow2Mod(k, den) ==
    IF k = 0 THEN 1 % den
    ELSE LET h == Pow2Mod(k \div 2, den)
         IN (h * h * (IF k % 2 = 1 THEN 2 ELSE 1)) % den

\* what is left of rem/den, rem < den, after n bits of long division
DivRest(rem, den, n) == (rem * Pow2Mod(n, den)) % den

\* the next n bits of rem/den
DivBits(rem, den, n) ==
    [i \in 1..n |-> IF 2 * DivRest(rem, den, i - 1) >= den THEN 1 ELSE 0]

\* how often num < den doubles before it reaches den
RECURSIVE LeadShift(_, _)
LeadShift(num, den) == IF 2 * num >= den THEN 1 ELSE 1 + LeadShift(2 * num, den)

\* bits + 1, most significant bit first; one bit longer when all were 1
Increment(bits) ==
    LET zeros == {i \in 1..Len(bits) : bits[i] = 0}
    IN IF zeros = {} THEN <<1>> \o Zeros(Len(bits))
       ELSE LET last == CHOOSE i \in zeros : \A j \in zeros : j <= i
            IN [i \in 1..Len(bits) |->
                   IF i < last THEN bits[i] ELSE IF i = last THEN 1 ELSE 0]

\* round to nearest, ties to even: mant (most significant bit first) followed
\* by the bit `half` and, when sticky, by further non-zero bits
RoundNearestEven(mant, exp, half, sticky) ==
    IF half = 1 /\ (sticky \/ mant[Len(mant)] = 1)
    THEN LET up == Increment(mant)
         IN IF Len(up) > Len(mant)
            THEN [mant |-> SubSeq(up, 1, Len(mant)), exp |-> exp + 1]
            ELSE [mant |-> up, exp |-> exp]
    ELSE [mant |-> mant, exp |-> exp]

\* num / den for integers 0 <= num <= den, den > 0
Divide(num, den) ==
    IF num = 0 THEN Zero
    ELSE IF num = den THEN [mant |-> <<1>> \o Zeros(Precision - 1), exp |-> 0]
    ELSE LET k == LeadShift(num, den)
             rem == num * Pow2(k) - den
             rest == DivRest(rem, den, Precision - 1)
         IN RoundNearestEven(<<1>> \o DivBits(rem, den, Precision - 1), 0 - k,
                             IF 2 * rest >= den THEN 1 ELSE 0,
                             (2 * rest) % den # 0)

\* the integer that bits, most significant first, write in binary
RECURSIVE BitsToInt(_)
BitsToInt(bits) ==
    IF bits = <<>> THEN 0 ELSE 2 * BitsToInt(SubSeq(bits, 1, Len(bits) - 1)) + bits[Len(bits)]

\* the mantissa is multiplied in limbs of LimbWidth bits, limb 1 the most
\* significant, so that every intermediate stays below 2^31
LimbWidth == Precision \div 4

Limbs == (Precision + LimbWidth - 1) \div LimbWidth

LimbAt(bits, j) == BitsToInt(SubSeq(bits, (j - 1) * LimbWidth + 1, j * LimbWidth))

\* limb j of bits * c, before its carry leaves it; limb 0 is the carry out of limb 1
RECURSIVE LimbTimes(_, _, _)
LimbTimes(bits, c, j) ==
    IF j > Limbs THEN 0
    ELSE (IF j = 0 THEN 0 ELSE LimbAt(bits, j) * c)
            + (LimbTimes(bits, c, j + 1) \div Pow2(LimbWidth))

\* mant * c in binary, most significant bit first, no leading zeros
TimesBits(mant, c) ==
    LET padded == Zeros(Limbs * LimbWidth - Len(mant)) \o mant
        all == [i \in 1..((Limbs + 1) * LimbWidth) |->
                   (LimbTimes(padded, c, (i - 1) \div LimbWidth)
                        \div Pow2(LimbWidth - 1 - ((i - 1) % LimbWidth))) % 2]
        lead == CHOOSE i \in DOMAIN all : all[i] = 1 /\ \A j \in 1..(i - 1) : all[j] = 0
    IN SubSeq(all, lead, Len(all))

\* x * c for a small integer c >= 0
Times(x, c) ==
    IF x = Zero \/ c = 0 THEN Zero
    ELSE LET prod == TimesBits(x.mant, c)
             extra == Len(prod) - Precision
         IN IF extra <= 0 THEN [mant |-> prod \o Zeros(0 - extra), exp |-> x.exp + extra]
            ELSE RoundNearestEven(SubSeq(prod, 1, Precision), x.exp + extra,
                                  prod[Precision + 1],
                                  \E j \in (Precision + 2)..Len(prod) : prod[j] = 1)

\* Math.round(x) for 0 <= x < 2^30: the integer nearest to x, halves going up
MathRound(x) ==
    IF x = Zero \/ x.exp < 0 - 1 THEN 0
    ELSE IF x.exp = 0 - 1 THEN 1
    ELSE BitsToInt(SubSeq(x.mant, 1, x.exp + 1))
            + (IF x.exp + 2 <= Len(x.mant) THEN x.mant[x.exp + 2] ELSE 0)

\* Math.floor(x) for 0 <= x < 2^30
MathFloor(x) ==
    IF x = Zero \/ x.exp < 0 THEN 0 ELSE BitsToInt(SubSeq(x.mant, 1, x.exp + 1))

\* the literal 0.6: the double nearest to 3/5
PointSix == Divide(3, 5)

\* Math.round((num / den) * 100), on the values of its operands
Percent[num \in Nat, den \in Nat] == MathRound(Times(Divide(num, den), 100))

\* const completionRate = requiredFields.length > 0 ? Math.round(...) : 100
CompletionRate(fs) ==
    LET requiredFields == SelectSeq(fs, LAMBDA f : f.required)
        filledRequired ==
            Len(SelectSeq(requiredFields,
                          LAMBDA f : f.status = "filled" \/ f.status = "skipped"))
    IN IF Len(requiredFields) > 0
       THEN Percent[filledRequired, Len(requiredFields)]
       ELSE 100

----------------------------------------------------------------------------
(* Save & Validate, and the structured export *)

\* StillMissing that forgets to look at required
StillMissingOptionalToo(fs) == SelectSeq(fs, LAMBDA f : f.status = "empty")

\* fields.filter(f => f.required && f.status === 'empty')
StillMissing(fs) == SelectSeq(fs, LAMBDA f : f.required /\ f.status = "empty")

\* handleSave up to its await; the button is disabled while isSaving, and
\* the continuation keeps the `fields` of the render that was clicked
HandleSave ==
    /\ ~isSaving
    /\ isSaving' = TRUE
    /\ saveMessage' = NoMessage
    /\ saveFields' = fields
    /\ lastOp' = Op("handleSave", "", "", "save")
    /\ UNCHANGED <<fields, uploads, viewVars, app, dlVars, jsonExport, edits>>

\* handleSave after its await: the 800 ms timer has fired
SaveTimeout ==
    /\ isSaving
    /\ saveMessage' = IF Len(StillMissing(saveFields)) > 0
                      THEN ValidationFailed(Len(StillMissing(saveFields)))
                      ELSE SavedMessage
    /\ isSaving' = FALSE
    /\ saveFields' = <<>>
    /\ lastOp' = Op("saveTimeout", "", "", "save")
    /\ UNCHANGED <<fields, uploads, viewVars, app, dlVars, jsonExport, edits>>

\* JsonField that leaves out an empty value as well
JsonFieldDropsEmptyValue(f) ==
    LET out == (IF f.boundingBox = NoBox THEN {"boundingBox"} ELSE {})
                  \cup (IF f.value = "" THEN {"value"} ELSE {})
    IN [k \in (DOMAIN f) \ out |-> f[k]]

\* JSON.stringify of one field: a property whose value is undefined is left out
JsonField(f) ==
    IF f.boundingBox = NoBox
    THEN [k \in (DOMAIN f) \ {"boundingBox"} |-> f[k]]
    ELSE f

\* what reading a property gives when the object does not have it
Undefined == "<<undefined>>"

\* JSON.parse(text) as DocumentAnalysis, one field of it: the properties of
\* FieldData as reading them off the parsed object gives them
JsonParseField(j) ==
    [k \in DOMAIN Field(1, "", "", FALSE, NoBox, "", "") |->
        IF k \in DOMAIN j THEN j[k]
        ELSE IF k = "boundingBox" THEN NoBox ELSE Undefined]

\* the field list of a parsed payload
JsonParse(json) == [i \in DOMAIN json |-> JsonParseField(json[i])]

\* exportJSON: JSON.stringify({...data, fields}) offered as a download
ExportJSON ==
    /\ jsonExport' = [i \in DOMAIN fields |-> JsonField(fields[i])]
    /\ lastOp' = Op("exportJSON", "", "", "export")
    /\ UNCHANGED <<storeVars, saveVars, viewVars, app, dlVars, edits>>

----------------------------------------------------------------------------
(* handleDownloadFilledDoc: the base image, the fields drawn over it in    *)
(* list order, and the PDF. Lengths are exact: boxes are in tenths and the *)
(* image sides are multiples of ten.                                       *)

\* naturalWidth, naturalHeight of the base image
BaseSizes == {<<200, 100>>, <<100, 200>>, <<100, 100>>}

\* naturalWidth, naturalHeight of a field's image
FieldImageSizes == {<<20, 10>>, <<400, 400>>}

\* Drawable that forgets the skipped fields
DrawableThoughSkipped(f) == f.boundingBox # NoBox /\ Truthy(f.value)

\* if (!field.boundingBox || !field.value || field.status === 'skipped') continue
Drawable(f) ==
    f.boundingBox # NoBox /\ Truthy(f.value) /\ f.status # "skipped"

\* x, y, w, h of the field's box on the canvas
BoxRect(f, cv) ==
    [x |-> (f.boundingBox[2] * cv.width) \div 10,
     y |-> (f.boundingBox[1] * cv.height) \div 10,
     w |-> ((f.boundingBox[4] - f.boundingBox[2]) * cv.width) \div 10,
     h |-> ((f.boundingBox[3] - f.boundingBox[1]) * cv.height) \div 10]

\* box heights, in pixels, that SpecFont draws text in
MaxBoxHeight == 200

\* Math.floor(h * 0.6) for every box height h in use, h an integer
FloorOfSixTenths == [h \in 0..MaxBoxHeight |-> MathFloor(Times(PointSix, h))]

\* FontSize that clamps to the lower limit only
FontSizeNoCeiling(h) ==
    LET fontSize == FloorOfSixTenths[h]
    IN IF fontSize < 12 THEN 12 ELSE fontSize

\* let fontSize = Math.floor(h * 0.6); if (fontSize < 12) fontSize = 12;
\* if (fontSize > 60) fontSize = 60
FontSize(h) ==
    LET fontSize == FloorOfSixTenths[h]
    IN IF fontSize < 12 THEN 12 ELSE IF fontSize > 60 THEN 60 ELSE fontSize

\* ctx.fillText(text, textX, textY, w - 10) in the font of the box's height;
\* y2 is twice textY
FillText(i, text, r) ==
    [op |-> "fillText", field |-> i, text |-> text, x |-> r.x + 5,
     y2 |-> 2 * r.y + r.h, maxWidth |-> r.w - 10, font |-> FontSize(r.h)]

\* ctx.drawImage(fieldImg, drawX, drawY, drawW, drawH): the scale is
\* min(w / naturalWidth, h / naturalHeight), kept as the fraction sn / sd
DrawFieldImage(i, src, r, nat) ==
    LET byWidth == r.w * nat[2] <= r.h * nat[1]
        sn == IF byWidth THEN r.w ELSE r.h
        sd == IF byWidth THEN nat[1] ELSE nat[2]
    IN [op |-> "drawImage", field |-> i, src |-> src, nat |-> nat, scale |-> <<sn, sd>>,
        drawW |-> <<nat[1] * sn, sd>>, drawH |-> <<nat[2] * sn, sd>>,
        drawX |-> <<2 * r.x * sd + r.w * sd - nat[1] * sn, 2 * sd>>,
        drawY |-> <<2 * r.y * sd + r.h * sd - nat[2] * sn, 2 * sd>>]

\* Draw that puts the new drawing under everything drawn so far
DrawUnder(cv, d) == [cv EXCEPT !.draws = <<d>> \o @]

\* ctx.fillText, ctx.drawImage: the canvas holds its drawings in the order
\* they were made
Draw(cv, d) == [cv EXCEPT !.draws = Append(@, d)]

\* the for loop from field i on, up to its next await or to its end
RECURSIVE RunLoop(_, _, _)
RunLoop(fs, i, cv) ==
    IF i > Len(fs) THEN [pc |-> "encode", idx |-> 0, canvas |-> cv]
    ELSE IF ~Drawable(fs[i]) THEN RunLoop(fs, i + 1, cv)
    ELSE IF fs[i].type \in {"image", "signature"}
         THEN [pc |-> "field", idx |-> i, canvas |-> cv]
    ELSE IF fs[i].type = "checkbox"
         THEN RunLoop(fs, i + 1,
                      IF IsChecked(fs[i].value)
                      THEN Draw(cv, FillText(i, "check", BoxRect(fs[i], cv)))
                      ELSE cv)
    ELSE RunLoop(fs, i + 1, Draw(cv, FillText(i, fs[i].value, BoxRect(fs[i], cv))))

\* DownloadFailed with the catch block and no finally block
DownloadFailedNoFinally ==
    /\ saveMessage' = PdfFailed
    /\ isGeneratingDownload' = isGeneratingDownload
    /\ dlPc' = "idle"
    /\ dlIdx' = 0
    /\ dlFields' = <<>>

\* catch: the message; finally: the flag
DownloadFailed ==
    /\ saveMessage' = PdfFailed
    /\ isGeneratingDownload' = FALSE
    /\ dlPc' = "idle"
    /\ dlIdx' = 0
    /\ dlFields' = <<>>

\* Orientation that is landscape for a square image too
OrientationSquareLandscape(width, height) == IF width >= height THEN "l" ELSE "p"

\* const orientation = width > height ? 'l' : 'p'
Orientation(width, height) == IF width > height THEN "l" ELSE "p"

\* new jsPDF(orientation, 'px', [width, height]) and addImage over the whole
\* page: jsPDF swaps the two sides of a format that contradicts the orientation
JsPdf(orientation, width, height, image) ==
    LET swap == \/ orientation = "l" /\ height > width
                \/ orientation = "p" /\ width > height
    IN [orientation |-> orientation,
        width |-> IF swap THEN height ELSE width,
        height |-> IF swap THEN width ELSE height,
        image |-> image]

\* what the step's environment makes throw, for lastOp: nothing, or the
\* encoding of a loop that runs to its end
Thrown(i, cv, encOk) ==
    IF RunLoop(dlFields, i, cv).pc = "encode" /\ ~encOk THEN "encode" ELSE ""

\* the loop from field i on and, when it ends, toDataURL, jsPDF and save,
\* which throw when encOk is FALSE
LoopAndPdf(i, cv, encOk) ==
    LET r == RunLoop(dlFields, i, cv)
    IN /\ canvas' = r.canvas
       /\ IF r.pc = "field"
          THEN /\ dlPc' = "field"
               /\ dlIdx' = r.idx
               /\ UNCHANGED <<saveMessage, isGeneratingDownload, dlFields, pdf>>
          ELSE IF encOk
          THEN /\ pdf' = JsPdf(Orientation(cv.width, cv.height), cv.width, cv.height,
                            r.canvas.draws)
               /\ isGeneratingDownload' = FALSE
               /\ dlPc' = "idle"
               /\ dlIdx' = 0
               /\ dlFields' = <<>>
               /\ UNCHANGED saveMessage
          ELSE DownloadFailed /\ UNCHANGED pdf

\* HandleDownloadFilledDoc with a button that is never disabled
HandleDownloadFilledDocAnyTime(ctxOk) ==
    /\ lastOp' = Op("handleDownloadFilledDoc", "",
                    IF imageUrl /\ ~ctxOk THEN "context" ELSE "", "download")
    /\ UNCHANGED <<fields, uploads, saveVars, viewVars, app, jsonExport, edits>>
    /\ IF ~imageUrl
       THEN UNCHANGED <<saveMessage, dlVars>>
       ELSE IF ~ctxOk
       THEN DownloadFailed /\ UNCHANGED <<canvas, pdf>>
       ELSE /\ isGeneratingDownload' = TRUE
            /\ dlPc' = "base"
            /\ dlFields' = fields
            /\ UNCHANGED <<saveMessage, dlIdx, canvas, pdf>>

\* handleDownloadFilledDoc up to its first await; the button is disabled
\* while isGeneratingDownload; ctxOk is the canvas having a 2d context
HandleDownloadFilledDoc(ctxOk) ==
    /\ ~isGeneratingDownload
    /\ lastOp' = Op("handleDownloadFilledDoc", "",
                    IF imageUrl /\ ~ctxOk THEN "context" ELSE "", "download")
    /\ UNCHANGED <<fields, uploads, saveVars, viewVars, app, jsonExport, edits>>
    /\ IF ~imageUrl
       THEN UNCHANGED <<saveMessage, dlVars>>
       ELSE IF ~ctxOk
       THEN DownloadFailed /\ UNCHANGED <<canvas, pdf>>
       ELSE /\ isGeneratingDownload' = TRUE
            /\ dlPc' = "base"
            /\ dlFields' = fields
            /\ UNCHANGED <<saveMessage, dlIdx, canvas, pdf>>

\* img.onload of the base image, and on to the next await or the end
BaseImageLoaded(size, encOk) ==
    /\ dlPc = "base"
    /\ UNCHANGED <<fields, uploads, saveVars, viewVars, app, jsonExport, edits>>
    /\ LET cv == [width |-> size[1], height |-> size[2],
                  draws |-> <<[op |-> "base", field |-> 0]>>]
       IN /\ lastOp' = Op("baseImageLoaded", "", Thrown(1, cv, encOk), "download")
          /\ LoopAndPdf(1, cv, encOk)

\* BaseImageError that resolves, as the field images' onerror does
BaseImageErrorResolves ==
    /\ dlPc = "base"
    /\ UNCHANGED <<fields, uploads, saveVars, viewVars, app, jsonExport, edits>>
    /\ LET cv == [width |-> 0, height |-> 0, draws |-> <<[op |-> "base", field |-> 0]>>]
       IN /\ lastOp' = Op("baseImageError", "", Thrown(1, cv, TRUE), "download")
          /\ LoopAndPdf(1, cv, TRUE)

\* img.onerror of the base image: the promise rejects
BaseImageError ==
    /\ dlPc = "base"
    /\ lastOp' = Op("baseImageError", "", "base", "download")
    /\ UNCHANGED <<fields, uploads, saveVars, viewVars, app, jsonExport, edits>>
    /\ DownloadFailed
    /\ UNCHANGED <<canvas, pdf>>

\* FieldImageLoaded that reads the field from the current field list
FieldImageLoadedLive(nat, encOk) ==
    /\ dlPc = "field"
    /\ UNCHANGED <<fields, uploads, saveVars, viewVars, app, jsonExport, edits>>
    /\ LET cv == Draw(canvas, DrawFieldImage(dlIdx, fields[dlIdx].value,
                                             BoxRect(fields[dlIdx], canvas), nat))
       IN /\ lastOp' = Op("fieldImageLoaded", fields[dlIdx].key,
                          Thrown(dlIdx + 1, cv, encOk), "download")
          /\ LoopAndPdf(dlIdx + 1, cv, encOk)

\* fieldImg.onload: the image is drawn, and on to the next await or the end
FieldImageLoaded(nat, encOk) ==
    /\ dlPc = "field"
    /\ UNCHANGED <<fields, uploads, saveVars, viewVars, app, jsonExport, edits>>
    /\ LET cv == Draw(canvas, DrawFieldImage(dlIdx, dlFields[dlIdx].value,
                                             BoxRect(dlFields[dlIdx], canvas), nat))
       IN /\ lastOp' = Op("fieldImageLoaded", dlFields[dlIdx].key,
                          Thrown(dlIdx + 1, cv, encOk), "download")
          /\ LoopAndPdf(dlIdx + 1, cv, encOk)

\* fieldImg.onerror: naturalWidth and naturalHeight are 0, so the scale is
\* Infinity or NaN and every argument of drawImage is NaN. drawImage on a
\* broken image with NaN arguments draws nothing; whether it returns (the
\* argument check first) or throws InvalidStateError (the image check first)
\* is the browser's choice
FieldImageError(throws, encOk) ==
    /\ dlPc = "field"
    /\ lastOp' = Op("fieldImageError", dlFields[dlIdx].key,
                    IF throws THEN "drawImage" ELSE Thrown(dlIdx + 1, canvas, encOk),
                    "download")
    /\ UNCHANGED <<fields, uploads, saveVars, viewVars, app, jsonExport, edits>>
    /\ IF throws
       THEN DownloadFailed /\ UNCHANGED <<canvas, pdf>>
       ELSE LoopAndPdf(dlIdx + 1, canvas, encOk)

----------------------------------------------------------------------------
(* Spec: the field store under its edit handlers *)

Unrendered == 0 - 1

BlankCanvas == [width |-> 0, height |-> 0, draws |-> <<>>]

NoPdf == [orientation |-> "", width |-> 0, height |-> 0, image |-> <<>>]

NoExport == <<"none">>

NoOp == [op |-> "init", key |-> "", value |-> "", via |-> "",
         pre |-> <<>>, twice |-> FALSE, start |-> <<>>]

\* the useState initialisers of AnalysisView, and nothing exported yet
Fresh ==
    /\ saveMessage = NoMessage
    /\ uploads = {}
    /\ isSaving = FALSE
    /\ saveFields = <<>>
    /\ isGeneratingDownload = FALSE
    /\ dlPc = "idle"
    /\ dlFields = <<>>
    /\ dlIdx = 0
    /\ canvas = BlankCanvas
    /\ pdf = NoPdf
    /\ jsonExport = NoExport
    /\ shown = Unrendered
    /\ lastOp = NoOp

\* App while AnalysisView is mounted: the analysis of the one file chosen
\* has resolved with a document
Reviewing ==
    [appState |-> "REVIEW", currentFile |-> 1,
     analysisData |-> [file |-> 1, kind |-> "document"], errorMsg |-> NullValue,
     pending |-> {}, started |-> 1, dialogOpen |-> FALSE]

\* the state AnalysisView mounts with, apart from fields and imageUrl
Mounted ==
    /\ app = Reviewing
    /\ Fresh

Init ==
    /\ InitFields(TypeShifts, BOOLEAN, BOOLEAN, {TRUE}, AllInitValues, FieldStatus)
    /\ imageUrl = TRUE
    /\ edits = Unbounded
    /\ Mounted

Next ==
    \/ \E key \in Keys(fields) \cup {UnknownKey}, v \in EditValues :
          HandleFieldChange(key, v)
    \/ \E key \in Keys(fields) \cup {UnknownKey} : HandleSkipField(key)
    \/ \E i \in DOMAIN fields, v \in EditValues : TextEdit(i, v)
    \/ \E i \in DOMAIN fields : CheckboxClick(i)
    \/ \E i \in DOMAIN fields : HandleImageUpload(i)
    \/ \E u \in uploads, r \in {ImageData, NullValue} : ReaderLoadEnd(u, r)
    \/ \E i \in DOMAIN fields : ClearImageField(i)

Spec == Init /\ [][Next]_vars

----------------------------------------------------------------------------
(* SpecSave: edits around Save & Validate and the structured export *)

InitSave ==
    /\ InitFields(TypeShifts, {FALSE}, BOOLEAN, {TRUE}, {""}, {"empty", "uncertain"})
    /\ imageUrl = TRUE
    /\ edits = MaxEdits
    /\ Mounted

NextSave ==
    \/ \E key \in Keys(fields) \cup {UnknownKey}, v \in EditValues :
          HandleFieldChange(key, v)
    \/ \E key \in Keys(fields) \cup {UnknownKey} : HandleSkipField(key)
    \/ HandleSave
    \/ SaveTimeout
    \/ ExportJSON

SpecSave == InitSave /\ [][NextSave]_vars

----------------------------------------------------------------------------
(* SpecExport: edits around the filled-document export *)

InitExport ==
    /\ InitFields(TypeShifts, {FALSE}, {FALSE}, BOOLEAN, AllInitValues, {"filled"})
    /\ imageUrl \in BOOLEAN
    /\ edits = MaxExportEdits
    /\ Mounted

NextExport ==
    \/ \E key \in Keys(fields), v \in EditValues : HandleFieldChange(key, v)
    \/ \E key \in Keys(fields) : HandleSkipField(key)
    \/ \E ctxOk \in BOOLEAN : HandleDownloadFilledDoc(ctxOk)
    \/ \E size \in BaseSizes, encOk \in BOOLEAN : BaseImageLoaded(size, encOk)
    \/ BaseImageError
    \/ \E nat \in FieldImageSizes, encOk \in BOOLEAN : FieldImageLoaded(nat, encOk)
    \/ \E throws \in BOOLEAN, encOk \in BOOLEAN : FieldImageError(throws, encOk)

SpecExport == InitExport /\ [][NextExport]_vars

----------------------------------------------------------------------------
(* SpecPage: the composite export of documents of one field that is not an *)
(* image, its box the whole page, on pages of every height                 *)

\* the types whose value is drawn as text
TextTypes == {"text", "date", "number", "currency", "email", "phone", "address"}

\* values the extraction service or a click on the row gives a checkbox
CheckboxValues == {"", "true", "false", "Yes", "TRUE", "Checked", "no", "N/A"}

WholePage == <<0, 0, 10, 10>>

\* naturalWidth, naturalHeight of the base image
PageSizes == {<<MaxBoxHeight \div 2, h>> : h \in 1..MaxBoxHeight}

InitPage ==
    /\ \E type \in TextTypes \cup {"checkbox"} :
       \E value \in (IF type = "checkbox" THEN CheckboxValues ELSE {"Ann"}) :
          fields = <<Field(1, KeyName(1), type, TRUE, WholePage, value,
                           IF Truthy(value) THEN "filled" ELSE "empty")>>
    /\ imageUrl = TRUE
    /\ edits = 0
    /\ Mounted

NextPage ==
    \/ HandleDownloadFilledDoc(TRUE)
    \/ \E size \in PageSizes : BaseImageLoaded(size, TRUE)

SpecPage == InitPage /\ [][NextPage]_vars

----------------------------------------------------------------------------
(* SpecJson: exportJSON between edits, on documents of every shape *)

InitJson ==
    /\ InitFields(TypeShifts, {FALSE}, {TRUE}, BOOLEAN, AllInitValues, FieldStatus)
    /\ imageUrl = TRUE
    /\ edits = MaxExportEdits
    /\ Mounted

NextJson ==
    \/ \E key \in Keys(fields), v \in EditValues \cup {NullValue} :
          HandleFieldChange(key, v)
    \/ \E key \in Keys(fields) : HandleSkipField(key)
    \/ ExportJSON

SpecJson == InitJson /\ [][NextJson]_vars

----------------------------------------------------------------------------
(* SpecSession: edits, Save & Validate and both exports in one session, on *)
(* small documents whose images all have one size                          *)

InitSession ==
    /\ InitFields(TypeShifts, {FALSE}, {TRUE}, {TRUE}, AllInitValues, {"filled"})
    /\ imageUrl = TRUE
    /\ edits = MaxExportEdits
    /\ Mounted

NextSession ==
    \/ \E key \in Keys(fields) \cup {UnknownKey}, v \in EditValues :
          HandleFieldChange(key, v)
    \/ \E key \in Keys(fields) \cup {UnknownKey} : HandleSkipField(key)
    \/ HandleSave
    \/ SaveTimeout
    \/ ExportJSON
    \/ \E ctxOk \in BOOLEAN : HandleDownloadFilledDoc(ctxOk)
    \/ \E encOk \in BOOLEAN : BaseImageLoaded(<<200, 100>>, encOk)
    \/ BaseImageError
    \/ \E encOk \in BOOLEAN : FieldImageLoaded(<<20, 10>>, encOk)
    \/ \E throws \in BOOLEAN, encOk \in BOOLEAN : FieldImageError(throws, encOk)

SpecSession == InitSession /\ [][NextSession]_vars

----------------------------------------------------------------------------
(* SpecRate: the completion percentage of documents with many required     *)
(* fields, some of them done                                               *)

MaxRequired == 40

\* nReq required text fields, the first nDone of them skipped or filled, the
\* others empty or uncertain, and one field that is not required
RateDocument(nReq, nDone) ==
    [i \in 1..(nReq + 1) |->
        IF i > nReq
        THEN Field(i, KeyName(i), "text", FALSE, NoBox, "", "empty")
        ELSE IF i <= nDone
             THEN Field(i, KeyName(i), "text", TRUE, BoxAt(i),
                        IF i = 1 THEN "" ELSE "Ann",
                        IF i = 1 THEN "skipped" ELSE "filled")
             ELSE Field(i, KeyName(i), "text", TRUE, BoxAt(i),
                        IF i = nReq THEN "N/A" ELSE "",
                        IF i = nReq THEN "uncertain" ELSE "empty")]

InitRate ==
    /\ \E nReq \in 0..MaxRequired : \E nDone \in 0..nReq :
          fields = RateDocument(nReq, nDone)
    /\ imageUrl = TRUE
    /\ edits = 0
    /\ Mounted

\* the render that shows {completionRate}%
Render ==
    /\ shown' = CompletionRate(fields)
    /\ lastOp' = Op("render", "", "", "render")
    /\ UNCHANGED <<storeVars, saveVars, imageUrl, app, dlVars, jsonExport, edits>>

NextRate == Render

SpecRate == InitRate /\ [][NextRate]_vars

----------------------------------------------------------------------------
(* Properties of the field store, checked under Spec *)

\* a value with no content: the empty string, or the null of a failed read
IsEmptyValue(v) == v = "" \/ v = NullValue

DerivedStatus(v) == IF IsEmptyValue(v) THEN "empty" ELSE "filled"

Hit(i) == fields[i].key = lastOp.key

\* C1: after handleFieldChange(key, newValue), every field carrying the key
\* whose status was not skipped holds newValue, with status filled when
\* newValue is non-empty and empty when it is empty, whatever the status was
\* before.
C1_SetValueRecomputesStatus ==
    lastOp.op = "handleFieldChange" =>
        \A i \in DOMAIN fields :
            (Hit(i) /\ lastOp.pre[i] # "skipped") =>
                /\ fields[i].value = lastOp.value
                /\ fields[i].status = DerivedStatus(lastOp.value)

\* an uncertain field has just been given the empty value and is now empty
C1_Witness ==
    /\ lastOp.op = "handleFieldChange"
    /\ \E i \in DOMAIN fields :
          /\ Hit(i) /\ lastOp.pre[i] = "uncertain"
          /\ lastOp.value = "" /\ fields[i].status = "empty"

\* C2: a value edit made through the form (a text edit, a checkbox click, an
\* image upload completing, an image clear) leaves a skipped field skipped.
C2_EditKeepsSkip ==
    (lastOp.op = "handleFieldChange"
        /\ lastOp.via \in {"text", "checkbox", "upload", "clear"}) =>
        \A i \in DOMAIN fields :
            (Hit(i) /\ lastOp.pre[i] = "skipped") => fields[i].status = "skipped"

\* C4: handleSkipField(key) leaves the value of every field carrying the key
\* as it was; a skipped field becomes filled when its value is non-empty and
\* empty otherwise, a field of any other status becomes skipped; required or
\* not makes no difference.
C4_ToggleSkip ==
    [][lastOp'.op = "handleSkipField" =>
          \A i \in DOMAIN fields :
              fields[i].key = lastOp'.key =>
                  /\ fields'[i].value = fields[i].value
                  /\ fields'[i].status =
                        IF fields[i].status = "skipped"
                        THEN DerivedStatus(fields[i].value)
                        ELSE "skipped"]_vars

\* a field that is not required has just been un-skipped to filled
C4_Witness ==
    /\ lastOp.op = "handleSkipField"
    /\ \E i \in DOMAIN fields :
          /\ Hit(i) /\ ~fields[i].required
          /\ lastOp.pre[i] = "skipped" /\ fields[i].status = "filled"

\* the status agrees with the value, or is skipped
Settled(status, value) == status = "skipped" \/ status = DerivedStatus(value)

\* C5 as stated, from a start that is uncertain or settled: two handleSkipField(key) in a row
\* return the status of every field carrying the key to what it was before
\* the first, whenever that status was uncertain, skipped, or a filled/empty
\* that agrees with the value.
C5_Involutive ==
    (lastOp.op = "handleSkipField" /\ lastOp.twice) =>
        \A i \in DOMAIN fields :
            (Hit(i) /\ (lastOp.start[i] = "uncertain"
                          \/ Settled(lastOp.start[i], fields[i].value))) =>
                fields[i].status = lastOp.start[i]

\* C5 as amended: two handleSkipField(key) in a row return the status to
\* what it was when that was skipped, filled with a non-empty value or empty
\* with an empty value; from any other start (uncertain, or a filled/empty
\* that disagrees with the value) they leave the status derived from the
\* value.
C5_InvolutiveWhenSettled ==
    (lastOp.op = "handleSkipField" /\ lastOp.twice) =>
        \A i \in DOMAIN fields :
            Hit(i) =>
                fields[i].status =
                    IF Settled(lastOp.start[i], fields[i].value)
                    THEN lastOp.start[i]
                    ELSE DerivedStatus(fields[i].value)

\* a filled field with a value has been skipped and un-skipped
C5_Witness ==
    /\ lastOp.op = "handleSkipField" /\ lastOp.twice
    /\ \E i \in DOMAIN fields :
          /\ Hit(i) /\ lastOp.start[i] = "filled"
          /\ ~IsEmptyValue(fields[i].value) /\ fields[i].status = "filled"

\* C8: a filled field has a non-empty value and an empty field an empty one.
C8_StatusMatchesValue ==
    \A i \in DOMAIN fields :
        /\ fields[i].status = "filled" => ~IsEmptyValue(fields[i].value)
        /\ fields[i].status = "empty" => IsEmptyValue(fields[i].value)

----------------------------------------------------------------------------
(* Properties of Save & Validate, checked under SpecSave *)

\* C3: handleFieldChange and handleSkipField called with a key no field
\* carries leave the field list as it was, and put up no message.
C3_UnknownKeyNoOp ==
    [][(lastOp'.op \in {"handleFieldChange", "handleSkipField"}
          /\ lastOp'.key \notin Keys(fields)) =>
          /\ fields' = fields
          /\ saveMessage' \in {saveMessage, NoMessage}]_vars

\* handleFieldChange has just been called with an unknown key on a list that
\* holds an edited field
C3_Witness ==
    /\ lastOp.op = "handleFieldChange" /\ lastOp.key \notin Keys(fields)
    /\ lastOp.value = "Ann"
    /\ \E i \in DOMAIN fields : fields[i].status = "skipped"

\* C7: the verdict handleSave reaches on a field list is success exactly
\* when no required field of the list has status empty; otherwise it is an
\* error that counts exactly the required fields with status empty, which are
\* the fields the filter keeps.
C7_Validate ==
    [][lastOp'.op = "saveTimeout" =>
          LET missing == {i \in DOMAIN saveFields :
                             saveFields[i].required /\ saveFields[i].status = "empty"}
              kept == StillMissing(saveFields)
          IN /\ (saveMessage'.type = "success") = (missing = {})
             /\ (saveMessage'.type = "error") = (missing # {})
             /\ saveMessage'.count = Cardinality(missing)
             /\ {kept[j].key : j \in DOMAIN kept} = {saveFields[i].key : i \in missing}
             /\ Len(kept) = Cardinality(missing)]_vars

\* one required field empty and one required field filled: one field missing
C7_Witness ==
    /\ lastOp.op = "saveTimeout"
    /\ saveMessage = ValidationFailed(1)
    /\ \E i, j \in DOMAIN fields :
          /\ fields[i].required /\ fields[i].status = "empty"
          /\ fields[j].required /\ fields[j].status = "filled"

----------------------------------------------------------------------------
(* Properties of the completion percentage, checked under SpecRate *)

\* C6: the percentage shown is round(100 * |F| / |R|), halves going up, for
\* R the required fields and F those of them that are filled or skipped; it
\* is 100 when nothing is required; it is an integer from 0 to 100.
C6_Completion ==
    shown # Unrendered =>
        LET R == {i \in DOMAIN fields : fields[i].required}
            F == {i \in R : fields[i].status \in {"filled", "skipped"}}
        IN /\ shown \in 0..100
           /\ shown = IF R = {} THEN 100
                      ELSE (200 * Cardinality(F) + Cardinality(R))
                              \div (2 * Cardinality(R))

----------------------------------------------------------------------------
(* Properties of the whole session, checked under SpecSession *)

\* C9: no step of a session changes the length of the field list or, at any
\* position, the key, label, type, required, boundingBox, example or
\* explanation of the field; a field changes only in a handleFieldChange or
\* handleSkipField step, and only when it carries the key of that call; so
\* the steps of Save & Validate, of exportJSON and of the composite export
\* change no field.
C9_Frame ==
    [][/\ Len(fields') = Len(fields)
       /\ \A i \in DOMAIN fields :
             /\ \A a \in {"key", "label", "type", "required", "boundingBox",
                           "example", "explanation"} : fields'[i][a] = fields[i][a]
             /\ fields'[i] # fields[i] =>
                   /\ lastOp'.op \in {"handleFieldChange", "handleSkipField"}
                   /\ fields[i].key = lastOp'.key]_vars

\* a validation has just ended in a session that skipped a field, exported
\* the JSON and produced a PDF
C9_Witness ==
    /\ lastOp.op = "saveTimeout"
    /\ edits = 0
    /\ \E i \in DOMAIN fields : fields[i].status = "skipped"
    /\ jsonExport # NoExport
    /\ pdf # NoPdf

----------------------------------------------------------------------------
(* Properties of the composite export, checked under SpecExport *)

\* a field the composite may draw: it has a bounding box, a value that is
\* not empty, and a status other than skipped
Eligible(f) ==
    f.boundingBox # NoBox /\ ~IsEmptyValue(f.value) /\ f.status # "skipped"

DrawsOf(draws, i) == {k \in DOMAIN draws : draws[k].field = i}

\* C10: in every step of the loop over the field list the export works on,
\* each draw on the canvas other than the base image is of a field that has
\* a bounding box, a non-empty value and a status other than skipped; and
\* when nothing in the step's environment throws, no error message appears,
\* every text field the loop passed that fulfils the three conditions has its
\* text drawn, the loop waits only for the image of a field that fulfils
\* them, and a loop that reached its end has produced the PDF of the canvas.
C10_OnlyEligibleDrawn ==
    [][lastOp'.op \in {"baseImageLoaded", "fieldImageLoaded", "fieldImageError"} =>
          LET first == IF lastOp'.op = "baseImageLoaded" THEN 1 ELSE dlIdx + 1
              last == IF dlPc' = "field" THEN dlIdx' - 1 ELSE Len(dlFields)
              draws == canvas'.draws
          IN /\ \A k \in DOMAIN draws :
                   draws[k].field > 0 => Eligible(dlFields[draws[k].field])
             /\ lastOp'.value = "" =>
                   /\ saveMessage' = saveMessage
                   /\ \A i \in first..last :
                         (/\ Eligible(dlFields[i])
                          /\ dlFields[i].type \notin {"image", "signature", "checkbox"})
                         => \E k \in DrawsOf(draws, i) :
                               /\ draws[k].op = "fillText"
                               /\ draws[k].text = dlFields[i].value
                   /\ dlPc' = "field" =>
                         /\ Eligible(dlFields[dlIdx'])
                         /\ dlFields[dlIdx'].type \in {"image", "signature"}
                   /\ dlPc' = "idle" => pdf'.image = draws]_vars

\* an export has just produced its PDF: a field with a box but no value, and
\* a skipped field with a box and a value, are not in it, another field is
C10_Witness ==
    /\ lastOp.op \in {"baseImageLoaded", "fieldImageLoaded"}
    /\ lastOp.value = ""
    /\ dlPc = "idle"
    /\ \E i \in DOMAIN fields :
          /\ fields[i].boundingBox # NoBox
          /\ \/ fields[i].value = ""
             \/ fields[i].value # "" /\ fields[i].status = "skipped"
          /\ DrawsOf(pdf.image, i) = {}
    /\ \E j \in DOMAIN fields : DrawsOf(pdf.image, j) # {}

\* C11: when the image of an image or signature field fails to load, nothing
\* is drawn for the field, no error message appears, and the loop goes on:
\* to the image of a later field, or to the PDF of the canvas (unless its
\* encoding throws).
C11_FieldDecodeFailureOmitsField ==
    [][(lastOp'.op = "fieldImageError" /\ lastOp'.value # "encode") =>
          /\ saveMessage' = saveMessage
          /\ DrawsOf(canvas'.draws, dlIdx) = {}
          /\ \/ dlPc' = "field" /\ dlIdx' > dlIdx
             \/ dlPc' = "idle" /\ pdf'.image = canvas'.draws]_vars

\* C12: when the base image fails to load the export ends there: the canvas
\* and the PDF are as they were (no field drawn, nothing encoded or saved),
\* the error message is set, the export is no longer in flight, and the step
\* changes no field; when the failure follows the start at once, the field
\* list is the one the export started with.
C12_BaseDecodeFailureAborts ==
    [][lastOp'.op = "baseImageError" =>
          /\ canvas' = canvas
          /\ pdf' = pdf
          /\ saveMessage' = PdfFailed /\ saveMessage'.type = "error"
          /\ ~isGeneratingDownload' /\ dlPc' = "idle"
          /\ fields' = fields
          /\ lastOp.op = "handleDownloadFilledDoc" => fields' = dlFields]_vars

\* the base image of an export of a list with a drawable field has just
\* failed to load, right after the start
C12_Witness ==
    /\ lastOp.op = "baseImageError"
    /\ saveMessage = PdfFailed
    /\ pdf = NoPdf /\ canvas = BlankCanvas
    /\ edits = MaxExportEdits
    /\ \E i \in DOMAIN fields : Eligible(fields[i])

\* C13: every image drawn for a field is drawn with a scale of at most 1,
\* and its drawn width and height are in the ratio of its natural width and
\* height.
C13_ScaleAtMostOne ==
    \A k \in DOMAIN canvas.draws :
        LET d == canvas.draws[k]
        IN d.op = "drawImage" =>
              /\ d.scale[1] <= d.scale[2]
              /\ d.drawW[2] = d.drawH[2]
              /\ d.drawW[1] * d.nat[2] = d.drawH[1] * d.nat[1]

----------------------------------------------------------------------------
(* Properties of what is drawn for one field, checked under SpecPage *)

\* C14: for a checkbox field with a bounding box, a non-empty value and a
\* status other than skipped, the export draws one check glyph when the
\* value in lower case is true, yes or checked, and draws nothing for the
\* field for any other value.
C14_CheckGlyph ==
    canvas.draws # <<>> =>
        \A i \in DOMAIN fields :
            (fields[i].type = "checkbox" /\ Eligible(fields[i])) =>
                LET drawn == DrawsOf(canvas.draws, i)
                IN IF ToLowerCase(fields[i].value) \in {"true", "yes", "checked"}
                   THEN /\ Cardinality(drawn) = 1
                        /\ \A k \in drawn : /\ canvas.draws[k].op = "fillText"
                                            /\ canvas.draws[k].text = "check"
                   ELSE drawn = {}

\* an export has drawn the glyph of a checkbox whose value is Yes
C14_Witness ==
    /\ pdf # NoPdf
    /\ fields[1].type = "checkbox"
    /\ fields[1].value = "Yes"
    /\ DrawsOf(pdf.image, 1) # {}

\* C15: the text of a text, date, number, currency, email, phone or address
\* field is drawn in a font of floor(0.6 * h) pixels for a box h pixels
\* high, raised to 12 and lowered to 60: an integer from 12 to 60; 12 for
\* h = 10, 30 for h = 50, 60 for h = 200.
C15_FontSize ==
    \A k \in DOMAIN canvas.draws :
        LET d == canvas.draws[k]
            h == canvas.height
            floor == (6 * h) \div 10
        IN (d.op = "fillText" /\ fields[d.field].type \in TextTypes) =>
              /\ d.font \in 12..60
              /\ d.font = IF floor < 12 THEN 12 ELSE IF floor > 60 THEN 60 ELSE floor
              /\ h = 10 => d.font = 12
              /\ h = 50 => d.font = 30
              /\ h = 200 => d.font = 60

\* a date has been drawn in a box 50 pixels high, in a font of 30 pixels
C15_Witness ==
    /\ canvas.height = 50
    /\ fields[1].type = "date"
    /\ \E k \in DOMAIN canvas.draws :
          canvas.draws[k].op = "fillText" /\ canvas.draws[k].font = 30

\* C16: the PDF is landscape exactly when the canvas is wider than it is
\* high, portrait otherwise, a square canvas included; its page has the
\* width and the height of the canvas, which are those of the base image.
C16_Orientation ==
    pdf # NoPdf =>
        /\ pdf.orientation \in {"l", "p"}
        /\ (pdf.orientation = "l") = (canvas.width > canvas.height)
        /\ pdf.width = canvas.width
        /\ pdf.height = canvas.height

\* a square canvas has been packed as a portrait page
C16_Witness ==
    /\ pdf # NoPdf
    /\ pdf.width = pdf.height
    /\ pdf.orientation = "p"

----------------------------------------------------------------------------
(* Properties of the structured export, checked under SpecJson *)

----------------------------------------------------------------------------
(* SpecApp: the application shell, App.tsx. Each file handed to            *)
(* handleFileSelect starts one analysis; nothing cancels an analysis, so   *)
(* several may be in flight and each settles whenever the service answers. *)

\* files one session selects
MaxFiles == 3

NoFile == 0

NoData == [file |-> NoFile, kind |-> "none"]

AnalysisFailed == "Failed to analyze document. Please try again or check your API key."

\* what JSON.parse(text) gives when it returns: a document, or a value that
\* parses but is no DocumentAnalysis (its fields list empty here)
PayloadKinds == {"document", "misshapen"}

\* why analyzeDocument rejects: the call fails, response.text is absent, or
\* the text is no JSON
Failures == {"call failed", "no text", "unparseable"}

Idle ==
    [appState |-> "IDLE", currentFile |-> NoFile, analysisData |-> NoData,
     errorMsg |-> NullValue, pending |-> {}, started |-> 0,
     dialogOpen |-> FALSE]

\* appState === AppState.REVIEW && currentFile && analysisData
Rendered(a) ==
    a.appState = "REVIEW" /\ a.currentFile # NoFile /\ a.analysisData # NoData

\* useState(data.fields) of a newly mounted AnalysisView
FieldsOf(data) ==
    IF data.kind = "document"
    THEN <<Field(1, KeyName(data.file), "text", TRUE, BoxAt(1), "", "empty")>>
    ELSE <<>>

\* the render after App's state became a: AnalysisView keeps its state while
\* it stays rendered, mounts with fresh state, or is gone
Rerender(a) ==
    IF Rendered(a) /\ Rendered(app)
    THEN UNCHANGED <<storeVars, saveVars, dlVars, viewVars, jsonExport>>
    ELSE /\ fields' = IF Rendered(a) THEN FieldsOf(a.analysisData) ELSE <<>>
         /\ imageUrl' = Rendered(a)
         /\ saveMessage' = NoMessage
         /\ uploads' = {}
         /\ isSaving' = FALSE
         /\ saveFields' = <<>>
         /\ isGeneratingDownload' = FALSE
         /\ dlPc' = "idle"
         /\ dlFields' = <<>>
         /\ dlIdx' = 0
         /\ canvas' = BlankCanvas
         /\ pdf' = NoPdf
         /\ jsonExport' = NoExport
         /\ shown' = Unrendered

AppStep(a, op, value, via) ==
    /\ app' = a
    /\ Rerender(a)
    /\ lastOp' = Op(op, "", value, via)
    /\ UNCHANGED edits

\* handleFileSelect up to its await
Selected(a) ==
    [a EXCEPT !.currentFile = a.started + 1, !.appState = "ANALYZING",
              !.errorMsg = NullValue, !.pending = @ \cup {a.started + 1},
              !.started = @ + 1]

\* handleReset
Reset(a) ==
    [a EXCEPT !.appState = "IDLE", !.currentFile = NoFile,
              !.analysisData = NoData, !.errorMsg = NullValue]

\* UploadZone, rendered in IDLE only, hands a file to handleFileSelect
HandleFileSelect ==
    /\ app.appState = "IDLE"
    /\ ~app.dialogOpen
    /\ app.started < MaxFiles
    /\ AppStep(Selected(app), "handleFileSelect", "", "UploadZone")

\* the sidebar button: opens the file dialog in IDLE, resets otherwise
HandleSidebarClick ==
    /\ ~app.dialogOpen
    /\ IF app.appState = "IDLE"
       THEN AppStep([app EXCEPT !.dialogOpen = TRUE], "handleSidebarClick", "", "open")
       ELSE AppStep(Reset(app), "handleSidebarClick", "", "reset")

\* the file dialog closes with a file: one of a wrong type or over 10MB is
\* refused with an alert, any other goes to handleFileSelect
HandleHiddenFileInputChange(valid) ==
    /\ app.dialogOpen
    /\ valid => app.started < MaxFiles
    /\ LET closed == [app EXCEPT !.dialogOpen = FALSE]
       IN AppStep(IF valid THEN Selected(closed) ELSE closed,
                  "handleHiddenFileInputChange",
                  IF valid THEN "" ELSE "alert", "dialog")

\* the file dialog closes without a file: no change event
DialogCancelled ==
    /\ app.dialogOpen
    /\ AppStep([app EXCEPT !.dialogOpen = FALSE], "dialogCancelled", "", "dialog")

\* the reset buttons: header, sidebar (REVIEW), error panel
HandleReset ==
    /\ ~app.dialogOpen
    /\ AppStep(Reset(app), "handleReset", "", "button")

\* await analyzeDocument(file) returns
AnalysisResolved(id, kind) ==
    /\ id \in app.pending
    /\ AppStep([app EXCEPT !.analysisData = [file |-> id, kind |-> kind],
                           !.appState = "REVIEW", !.pending = @ \ {id}],
               "analysisResolved", kind, ToString(id))

\* await analyzeDocument(file) throws
AnalysisRejected(id, why) ==
    /\ id \in app.pending
    /\ AppStep([app EXCEPT !.errorMsg = AnalysisFailed, !.appState = "ERROR",
                           !.pending = @ \ {id}],
               "analysisRejected", why, ToString(id))

InitApp ==
    /\ app = Idle
    /\ fields = <<>>
    /\ imageUrl = FALSE
    /\ edits = 0
    /\ Fresh

NextApp ==
    \/ HandleFileSelect
    \/ HandleSidebarClick
    \/ \E valid \in BOOLEAN : HandleHiddenFileInputChange(valid)
    \/ DialogCancelled
    \/ HandleReset
    \/ \E id \in 1..MaxFiles, kind \in PayloadKinds : AnalysisResolved(id, kind)
    \/ \E id \in 1..MaxFiles, why \in Failures : AnalysisRejected(id, why)

SpecApp == InitApp /\ [][NextApp]_vars

\* C18: an analysis that fails, or whose payload is absent or no JSON, puts
\* the application in ERROR with a message; and from ERROR the application
\* moves only by a reset, to IDLE
C18_ErrorTerminal ==
    [][/\ lastOp'.op = "analysisRejected"
          => app'.appState = "ERROR" /\ app'.errorMsg # NullValue
       /\ (app.appState = "ERROR" /\ app'.appState # "ERROR")
          => /\ app'.appState = "IDLE"
             /\ lastOp'.op \in {"handleReset", "handleSidebarClick"}]_vars

----------------------------------------------------------------------------
(* The order of the drawings of one export *)

\* the fields of fs the loop draws after waiting for their image
Awaited(fs) ==
    {i \in DOMAIN fs : Drawable(fs[i]) /\ fs[i].type \in {"image", "signature"}}

----------------------------------------------------------------------------
(* One export at a time on the canvas *)

DownloadSteps == {"baseImageLoaded", "baseImageError", "fieldImageLoaded", "fieldImageError"}

\* C20: an export is in flight exactly while isGeneratingDownload is set;
\* handleDownloadFilledDoc starts one only when none is in flight; while one
\* is in flight its field list is not replaced, and the canvas is resized or
\* drawn on only by a step of the export in flight
C20_OneExportInFlight ==
    [][/\ isGeneratingDownload' <=> dlPc' # "idle"
       /\ (lastOp'.op = "handleDownloadFilledDoc" /\ dlPc' # "idle")
             => dlPc = "idle" /\ ~isGeneratingDownload /\ canvas' = canvas
       /\ dlPc # "idle" => dlFields' = dlFields \/ dlPc' = "idle"
       /\ canvas' # canvas => dlPc # "idle" /\ lastOp'.op \in DownloadSteps]_vars

\* an export waits for a field's image after an earlier export has produced
\* its document on the same canvas
C20_Witness ==
    /\ isGeneratingDownload
    /\ dlPc = "field"
    /\ pdf # NoPdf

----------------------------------------------------------------------------
(* The verdict of Save & Validate and the field list at the time it is set *)

\* C21: the message handleSave sets after its delay is the verdict on the
\* field list as it is at that moment: success exactly when no required
\* field is empty then, otherwise the error counting those that are
C21_VerdictOfCurrentFields ==
    [][lastOp'.op = "saveTimeout" =>
          saveMessage' = IF Len(StillMissing(fields')) > 0
                         THEN ValidationFailed(Len(StillMissing(fields')))
                         ELSE SavedMessage]_vars

----------------------------------------------------------------------------
(* What an export draws, as a function of the field list it started with *)

\* the fields the loop has passed when it waits at dlIdx, and all of them
\* when it has ended
Passed(fs, pc, idx) ==
    {i \in DOMAIN fs : pc = "field" => i < idx}

\* C22: after every step of an export the field drawings on the canvas are
\* those of the field list the export started with: one drawing per field
\* in list order; of the fields passed, each text and each checked checkbox
\* that is drawable is drawn and no other field but a drawable image is;
\* and each drawing is made of the value and the box that field had when the
\* export started, whatever was edited since
C22_DrawsOfSnapshot ==
    [][(lastOp'.op \in DownloadSteps /\ canvas' # canvas) =>
          LET draws == canvas'.draws
              fs == dlFields
              drawn == {draws[k].field : k \in 2..Len(draws)}
          IN /\ \A j, k \in 2..Len(draws) : j < k => draws[j].field < draws[k].field
             /\ drawn \subseteq Passed(fs, dlPc', dlIdx')
             /\ \A i \in Passed(fs, dlPc', dlIdx') :
                   IF fs[i].type \in {"image", "signature"}
                   THEN i \in drawn => Drawable(fs[i])
                   ELSE i \in drawn <=>
                           /\ Drawable(fs[i])
                           /\ fs[i].type = "checkbox" => IsChecked(fs[i].value)
             /\ \A k \in 2..Len(draws) :
                   LET f == fs[draws[k].field]
                       r == BoxRect(f, canvas')
                   IN draws[k] =
                         IF f.type \in {"image", "signature"}
                         THEN DrawFieldImage(draws[k].field, f.value, r, draws[k].nat)
                         ELSE FillText(draws[k].field,
                                       IF f.type = "checkbox" THEN "check" ELSE f.value,
                                       r)]_vars

\* an export has ended with the image of a field whose value was changed
\* while the export waited for that image
C22_Witness ==
    /\ lastOp.op = "fieldImageLoaded"
    /\ dlPc = "idle"
    /\ pdf.image = canvas.draws
    /\ \E k \in DOMAIN pdf.image :
          /\ pdf.image[k].op = "drawImage"
          /\ fields[pdf.image[k].field].value # pdf.image[k].src

----------------------------------------------------------------------------
(* The REVIEW state and what it shows *)

\* C23: in REVIEW there is a current file, there is analysis data, and the
\* data is the result of analysing the current file
C23_ReviewShowsCurrentFile ==
    app.appState = "REVIEW" =>
       /\ app.currentFile # NoFile
       /\ app.analysisData # NoData
       /\ app.analysisData.file = app.currentFile

----------------------------------------------------------------------------
(* The success message and the required fields *)

\* C24: while the success message of Save & Validate is displayed, no
\* required field of the field list has status empty
C24_SuccessMeansNoneMissing ==
    saveMessage = SavedMessage => Len(StillMissing(fields)) = 0

----------------------------------------------------------------------------
(* SpecExportLive: edits around the export of a page of one size, with     *)
(* every awaited image eventually firing load or error                     *)

\* the load and error events of the image an export waits for
ImageEvent ==
    \/ \E encOk \in BOOLEAN : BaseImageLoaded(<<200, 100>>, encOk)
    \/ BaseImageError
    \/ \E encOk \in BOOLEAN : FieldImageLoaded(<<20, 10>>, encOk)
    \/ \E throws \in BOOLEAN, encOk \in BOOLEAN : FieldImageError(throws, encOk)

NextExportLive ==
    \/ \E key \in Keys(fields), v \in EditValues : HandleFieldChange(key, v)
    \/ \E key \in Keys(fields) : HandleSkipField(key)
    \/ \E ctxOk \in BOOLEAN : HandleDownloadFilledDoc(ctxOk)
    \/ ImageEvent

SpecExportLive == InitExport /\ [][NextExportLive]_vars /\ WF_vars(ImageEvent)

\* C25: whenever the generating flag is set it is reset later, however the
\* export ends; and with no base image the flag is never set
C25_FlagReset ==
    /\ isGeneratingDownload ~> ~isGeneratingDownload
    /\ [](~imageUrl => ~isGeneratingDownload)

\* an export that passed a field image and failed at the encoding has ended
\* with the flag reset
C25_Witness ==
    /\ lastOp.op \in {"fieldImageLoaded", "fieldImageError"}
    /\ lastOp.value = "encode"
    /\ saveMessage = PdfFailed
    /\ ~isGeneratingDownload

====
